---- MODULE Spec2Model ----
(***************************************************************************)
(* centimo2.0 / vibecheck: the comment analysis pipeline of                *)
(* checkvibe/views.py (the analyze view and EmotionYouTubeAnalyzer).       *)
(*                                                                         *)
(* One run of the analyze view is modelled as a state machine whose        *)
(* position pc follows the code: the view's input handling, the resolver,  *)
(* the metadata fetch, the pagination loop of get_comments (one action per *)
(* loop iteration), classification, aggregation and the word cloud.        *)
(* The upstream (YouTube Data API), TextBlob, langdetect, pycountry and    *)
(* WordCloud are the environment: their answers are nondeterministic       *)
(* choices or fixed tables over a small set of comment texts.              *)
(* Polarity is kept in units of 1/10000, percentages in units of 1/10.     *)
(***************************************************************************)
EXTENDS Integers, Sequences, FiniteSets

VARIABLES
    pc,               \* position of the run
    method,           \* request.method
    url,              \* request.POST["youtube_url"], stripped
    post_max,         \* request.POST.get("max_comments"): present or missing
    pycountry_ok,     \* whether "import pycountry" succeeded
    store,            \* upstream: the comment texts of the video
    served,           \* upstream: how many of them it has handed out
    max_comments,     \* the bound the view computed
    video_id,         \* analyze_video's video_id
    video_info,       \* analyze_video's video_info
    info_calls,       \* number of videos().list requests executed
    requests,         \* log of the commentThreads().list requests
    comments,         \* get_comments' comments
    next_page_token,  \* get_comments' next_page_token
    analyzed,         \* analyze_video's analyzed_comments (the DataFrame rows)
    languages,        \* get_language_statistics' languages
    sentiment_stats,  \* analyze_video's sentiment_stats
    language_stats,   \* analyze_video's language_stats
    render_calls,     \* number of WordCloud(...).generate calls
    failure,          \* kind of the failure the run ended in
    report            \* <<>> or <<the dict analyze_video returned>>

vars == <<pc, method, url, post_max, pycountry_ok, store, served, max_comments,
          video_id, video_info, info_calls, requests, comments,
          next_page_token, analyzed, languages, sentiment_stats,
          language_stats, render_calls, failure, report>>

(***************************************************************************)
(* Bounds of the model.                                                    *)
(***************************************************************************)
\* longest comment store enumerated over all texts
MaxStore == 2
\* number of page requests the log keeps (later ones are not recorded)
MaxLog == 3

(***************************************************************************)
(* Program constants.                                                      *)
(***************************************************************************)
PageSize == 100
DefaultMaxCommentsStr == <<"8", "0", "0">>
DefaultMaxComments == 800
PositiveThreshold == 1000
NegativeThreshold == -1000
api_key == "enter api key here"

Min(a, b) == IF a < b THEN a ELSE b

(***************************************************************************)
(* Strings of the request are sequences of characters.                     *)
(***************************************************************************)
DecimalDigits == {"0", "1", "2", "3", "4", "5", "6", "7", "8", "9"}
\* str.isdigit also accepts digits that int() rejects, such as superscript two
OtherDigits == {"^2"}
Whitespace == {" "}

DigitValue(c) ==
    CASE c = "0" -> 0 [] c = "1" -> 1 [] c = "2" -> 2 [] c = "3" -> 3
      [] c = "4" -> 4 [] c = "5" -> 5 [] c = "6" -> 6 [] c = "7" -> 7
      [] c = "8" -> 8 [] c = "9" -> 9

RECURSIVE LStrip(_)
LStrip(s) ==
    IF s # <<>> /\ Head(s) \in Whitespace THEN LStrip(Tail(s)) ELSE s

RECURSIVE RStrip(_)
RStrip(s) ==
    IF s # <<>> /\ s[Len(s)] \in Whitespace
    THEN RStrip(SubSeq(s, 1, Len(s) - 1)) ELSE s

Strip(s) == RStrip(LStrip(s))

IsDigit(s) ==
    s # <<>> /\ \A i \in 1..Len(s) : s[i] \in DecimalDigits \cup OtherDigits

IntRaises(s) == \E i \in 1..Len(s) : s[i] \notin DecimalDigits

RECURSIVE IntOf(_)
IntOf(s) ==
    IF s = <<>> THEN 0
    ELSE 10 * IntOf(SubSeq(s, 1, Len(s) - 1)) + DigitValue(s[Len(s)])

PostGet(field, default) == IF field.present THEN field.value ELSE default

\* line 232: int(s) if s.isdigit() else 800
ParseMaxComments(s) == IF IsDigit(s) THEN IntOf(s) ELSE DefaultMaxComments

(***************************************************************************)
(* Inputs of a run.                                                        *)
(***************************************************************************)
Methods == {"GET", "POST"}
Urls == {"not a youtube url", "https://youtu.be/abc",
         "https://www.youtube.com/watch?v=abc12345678"}

is_valid_youtube_url(u) == u # "not a youtube url"

NoId == "None"
extract_video_id(u) ==
    IF u = "https://www.youtube.com/watch?v=abc12345678"
    THEN "abc12345678" ELSE NoId

MaxCommentsInputs ==
    {[present |-> FALSE, value |-> <<>>]} \cup
    {[present |-> TRUE, value |-> v] :
        v \in {<<"0">>, <<"1">>, <<" ", "2", " ">>, <<"1", "5", "0">>,
               <<"-", "5">>, <<"a", "b", "c">>, <<"^2">>}}

(***************************************************************************)
(* Comment texts and what the libraries answer for each.                   *)
(***************************************************************************)
\* the texts every store up to MaxStore is built from
Texts == {"   ", "12345", "Ganz gut", "kinda nice", "meh", "quite bad"}
\* texts that occur only in the longer example stores
ExampleTexts == {"I love this", "C'est nul"}

\* text.strip() is falsy
IsBlank(t) == t = "   "

\* TextBlob(text).sentiment.polarity
Polarity(t) ==
    CASE t = "   " -> 0
      [] t = "I love this" -> 5000
      [] t = "C'est nul" -> -3000
      [] t = "12345" -> 0
      [] t = "Ganz gut" -> 1000
      [] t = "kinda nice" -> 1001
      [] t = "meh" -> -1000
      [] t = "quite bad" -> -1001

DetectFails == "LangDetectException"
\* langdetect.detect(text): a code, or the exception
Detect(t) ==
    CASE t = "   " -> DetectFails
      [] t = "I love this" -> "en"
      [] t = "C'est nul" -> "fr"
      [] t = "12345" -> DetectFails
      [] t = "Ganz gut" -> "de"
      [] t = "kinda nice" -> "en"
      [] t = "meh" -> "zz"
      [] t = "quite bad" -> "unknown"

\* whether the text leaves a word in clean_text_for_wordcloud's result
HasKeywords(t) == t \in {"I love this", "Ganz gut", "kinda nice", "quite bad"}

\* pycountry.languages: alpha_2 -> name
LanguageNames == [en |-> "English", fr |-> "French", de |-> "German"]

(***************************************************************************)
(* analyze_sentiment                                                       *)
(***************************************************************************)
\* thresholds taken inclusively
SentimentOfInclusive(polarity) ==
    IF polarity >= PositiveThreshold THEN "positive"
    ELSE IF polarity <= NegativeThreshold THEN "negative"
    ELSE "neutral"

SentimentOf(polarity) ==
    IF polarity > PositiveThreshold THEN "positive"
    ELSE IF polarity < NegativeThreshold THEN "negative"
    ELSE "neutral"

analyze_sentiment(text) ==
    [sentiment |-> SentimentOf(Polarity(text)), polarity |-> Polarity(text)]

\* line 195: one row per comment, in order
AnalyzeAll(cs) ==
    [i \in 1..Len(cs) |->
        [text |-> cs[i],
         sentiment |-> analyze_sentiment(cs[i]).sentiment,
         polarity |-> analyze_sentiment(cs[i]).polarity]]

(***************************************************************************)
(* get_lang_full_name and the labelling loop of get_language_statistics    *)
(***************************************************************************)
\* pycountry.languages.get(alpha_2=code).name raises AttributeError for a
\* code the table lacks and NameError when pycountry was never imported
LookupRaises(code, imported) == ~imported \/ code \notin DOMAIN LanguageNames

get_lang_full_name(code, imported) ==
    IF code = "unknown" THEN "Unknown"
    ELSE IF LookupRaises(code, imported) THEN code
    ELSE LanguageNames[code]

LanguageLabel(text, imported) ==
    IF ~IsBlank(text)
    THEN IF Detect(text) = DetectFails THEN "Unknown"
         ELSE get_lang_full_name(Detect(text), imported)
    ELSE "Unknown"

LanguageLabels(rows, imported) ==
    [i \in 1..Len(rows) |-> LanguageLabel(rows[i].text, imported)]

(***************************************************************************)
(* Statistics: tally in first-seen order, percentage, stable sort by count *)
(***************************************************************************)
FirstIndexes(labels) ==
    {i \in 1..Len(labels) : \A j \in 1..(i - 1) : labels[j] # labels[i]}

CountOf(labels, x) == Cardinality({i \in 1..Len(labels) : labels[i] = x})

\* collections.Counter(labels).items(): insertion (first-seen) order
Counter(labels) ==
    LET first == FirstIndexes(labels)
        nth(k) == CHOOSE i \in first : Cardinality({j \in first : j < i}) = k - 1
    IN  [k \in 1..Cardinality(first) |->
            [name |-> labels[nth(k)], count |-> CountOf(labels, labels[nth(k)])]]

\* round(count / total * 100, 1), in tenths of a percent (ties to even)
Percentage(count, total) ==
    LET q == (count * 1000) \div total
        r == (count * 1000) % total
    IN  IF 2 * r < total THEN q
        ELSE IF 2 * r > total THEN q + 1
        ELSE IF q % 2 = 0 THEN q ELSE q + 1

\* an ascending sort that is then reversed: equal counts come out reversed
SortedThenReversed(stats) ==
    LET rank(i) == Cardinality({j \in 1..Len(stats) :
                        \/ stats[j].count > stats[i].count
                        \/ stats[j].count = stats[i].count /\ j > i}) + 1
    IN  [k \in 1..Len(stats) |-> stats[CHOOSE i \in 1..Len(stats) : rank(i) = k]]

\* sorted(stats, key=count, reverse=True): equal counts keep their order
SortedByCountDesc(stats) ==
    LET rank(i) == Cardinality({j \in 1..Len(stats) :
                        \/ stats[j].count > stats[i].count
                        \/ stats[j].count = stats[i].count /\ j < i}) + 1
    IN  [k \in 1..Len(stats) |-> stats[CHOOSE i \in 1..Len(stats) : rank(i) = k]]

WithPercentage(counts, total) ==
    [k \in 1..Len(counts) |->
        [name |-> counts[k].name, count |-> counts[k].count,
         percentage |-> Percentage(counts[k].count, total)]]

\* pandas Series.value_counts().to_dict(): counts by frequency, descending;
\* equal counts are taken in first-seen order, the order pandas' sort of the
\* hash-table tally leaves them in (pandas documents no order for ties)
value_counts(labels) == SortedByCountDesc(Counter(labels))

get_sentiment_statistics(rows) ==
    LET sentiment_counts == value_counts([i \in 1..Len(rows) |-> rows[i].sentiment])
    IN  SortedByCountDesc(WithPercentage(sentiment_counts, Len(rows)))

\* statistics keyed by their rounded percentage: equal percentages collapse
LanguageStatisticsByPercentage(rows, imported) ==
    LET lang_counts == Counter(LanguageLabels(rows, imported))
        stats == WithPercentage(lang_counts, Len(rows))
        kept(e) == \A k \in 1..Len(stats) :
                      stats[k].percentage = e.percentage => stats[k].name = e.name
                         \/ \E j \in 1..(k - 1) : stats[j] = e
    IN  SortedByCountDesc(SelectSeq(stats, kept))

get_language_statistics(rows, imported) ==
    LET lang_counts == Counter(LanguageLabels(rows, imported))
    IN  SortedByCountDesc(WithPercentage(lang_counts, Len(rows)))

(***************************************************************************)
(* Word cloud                                                              *)
(***************************************************************************)
\* the normalized corpus: the texts that contribute at least one word
clean_text_for_wordcloud(rows) ==
    SelectSeq([i \in 1..Len(rows) |-> rows[i].text], HasKeywords)

NoImage == "None"
ImageUri == "data:image/png;base64,..."
RenderOutcomes == {"image", "raise"}

(***************************************************************************)
(* The upstream                                                            *)
(***************************************************************************)
NoToken == "None"
PageTokens == {"tokA", "tokB"}
\* "if not next_page_token"
Falsy(token) == token = NoToken \/ token = ""

VideoInfo == [title |-> "t", channel |-> "c", views |-> 10, likes |-> 2,
              comments |-> 3]
InfoOutcomes == {"found", "missing", "raise"}

Uniform(t, n) == [i \in 1..n |-> t]
SeqsUpTo(S, n) == UNION {[1..k -> S] : k \in 0..n}

\* stores beyond MaxStore: 100 to 250 equal comments, and two ranking examples
SpecialStores ==
    {Uniform("I love this", n) : n \in {100, 150, 250}} \cup
    {Uniform("I love this", 5) \o Uniform("C'est nul", 5) \o Uniform("Ganz gut", 3),
     <<"I love this", "C'est nul", "12345">>}

Stores == SeqsUpTo(Texts, MaxStore) \cup SpecialStores

\* item counts a page may hold when `size` were asked and `rem` are left:
\* none, one fewer than asked, as many as asked, or one more than asked
PageCounts(size, rem) ==
    {0, Min(size - 1, rem), Min(size, rem), Min(size + 1, rem)}

NoFailure == [kind |-> "None", at |-> "None"]
Failed(kind) == [kind |-> kind, at |-> pc]

Log(entry) == IF Len(requests) < MaxLog THEN Append(requests, entry) ELSE requests

(***************************************************************************)
(* Initial state: a request has arrived, nothing has run.                  *)
(***************************************************************************)
Init ==
    /\ pc = "Request"
    /\ method \in Methods
    /\ url \in Urls
    /\ post_max \in MaxCommentsInputs
    /\ pycountry_ok \in BOOLEAN
    /\ store \in Stores
    /\ served = 0
    /\ max_comments = 0
    /\ video_id = NoId
    /\ video_info = <<>>
    /\ info_calls = 0
    /\ requests = <<>>
    /\ comments = <<>>
    /\ next_page_token = NoToken
    /\ analyzed = <<>>
    /\ languages = <<>>
    /\ sentiment_stats = <<>>
    /\ language_stats = <<>>
    /\ render_calls = 0
    /\ failure = NoFailure
    /\ report = <<>>

env == <<method, url, post_max, pycountry_ok, store>>

(***************************************************************************)
(* analyze (the view), lines 228-245: up to the call of analyze_video      *)
(***************************************************************************)
AnalyzeView ==
    /\ pc = "Request"
    /\ LET max_comments_str == Strip(PostGet(post_max, DefaultMaxCommentsStr))
       IN  IF method # "POST"
           THEN pc' = "Form" /\ UNCHANGED <<max_comments, failure>>
           ELSE IF IsDigit(max_comments_str) /\ IntRaises(max_comments_str)
           THEN pc' = "ServerError" /\ UNCHANGED <<max_comments, failure>>
           ELSE /\ max_comments' = ParseMaxComments(max_comments_str)
                /\ IF ~is_valid_youtube_url(url)
                   THEN pc' = "Failed" /\ failure' = Failed("InvalidUrl")
                   ELSE IF api_key = ""
                   THEN pc' = "Failed" /\ failure' = Failed("Configuration")
                   ELSE pc' = "ResolvingId" /\ UNCHANGED failure
    /\ UNCHANGED <<env, served, video_id, video_info, info_calls, requests,
                   comments, next_page_token, analyzed, languages,
                   sentiment_stats, language_stats, render_calls, report>>

(***************************************************************************)
(* analyze_video, lines 185-187                                            *)
(***************************************************************************)
ResolveId ==
    /\ pc = "ResolvingId"
    /\ video_id' = extract_video_id(url)
    /\ IF video_id' = NoId
       THEN pc' = "Failed" /\ failure' = Failed("InvalidReference")
       ELSE pc' = "FetchingMetadata" /\ UNCHANGED failure
    /\ UNCHANGED <<env, served, max_comments, video_info, info_calls, requests,
                   comments, next_page_token, analyzed, languages,
                   sentiment_stats, language_stats, render_calls, report>>

(***************************************************************************)
(* get_video_info, lines 75-87, and the entry of get_comments, 90-91       *)
(***************************************************************************)
GetVideoInfo ==
    /\ pc = "FetchingMetadata"
    /\ info_calls' = info_calls + 1
    /\ \E outcome \in InfoOutcomes :
          CASE outcome = "found" ->
                 /\ video_info' = <<VideoInfo>>
                 /\ pc' = "FetchingComments"
                 /\ UNCHANGED failure
            [] outcome = "missing" ->
                 /\ pc' = "Failed" /\ failure' = Failed("NotFound")
                 /\ UNCHANGED video_info
            [] outcome = "raise" ->
                 /\ pc' = "Failed" /\ failure' = Failed("UpstreamError")
                 /\ UNCHANGED video_info
    /\ comments' = <<>>
    /\ next_page_token' = NoToken
    /\ UNCHANGED <<env, served, max_comments, video_id, requests, analyzed,
                   languages, sentiment_stats, language_stats, render_calls,
                   report>>

(***************************************************************************)
(* get_comments, lines 92-104: one iteration of the while loop.            *)
(* pc = "FetchingComments" is the loop head.                               *)
(***************************************************************************)
\* a request that ignores the remaining budget
RequestSizeWholePage == PageSize

RequestSize == Min(PageSize, max_comments - Len(comments))

GetCommentsPage ==
    /\ pc = "FetchingComments"
    /\ Len(comments) < max_comments
    /\ \/ \* request.execute() raises
          /\ requests' = Log([have |-> Len(comments), size |-> RequestSize,
                              got |-> -1, more |-> FALSE])
          /\ pc' = "Failed" /\ failure' = Failed("UpstreamError")
          /\ UNCHANGED <<served, comments, next_page_token>>
       \/ \* a response: its items are appended, its token decides the break
          \E n \in PageCounts(RequestSize, Len(store) - served),
             token \in {NoToken} \cup PageTokens :
             /\ requests' = Log([have |-> Len(comments), size |-> RequestSize,
                                 got |-> n, more |-> ~Falsy(token)])
             /\ served' = served + n
             /\ comments' = comments \o SubSeq(store, served + 1, served + n)
             /\ next_page_token' = token
             /\ pc' = IF Falsy(token) THEN "CommentsFetched" ELSE "FetchingComments"
             /\ UNCHANGED failure
    /\ UNCHANGED <<env, max_comments, video_id, video_info, info_calls, analyzed,
                   languages, sentiment_stats, language_stats, render_calls,
                   report>>

\* line 92: the loop condition is false
GetCommentsExit ==
    /\ pc = "FetchingComments"
    /\ ~(Len(comments) < max_comments)
    /\ pc' = "CommentsFetched"
    /\ UNCHANGED <<env, served, max_comments, video_id, video_info, info_calls,
                   requests, comments, next_page_token, analyzed, languages,
                   sentiment_stats, language_stats, render_calls, failure,
                   report>>

(***************************************************************************)
(* analyze_video, lines 190-192: get_comments returned                     *)
(***************************************************************************)
\* an empty comment list goes on to classification
CheckCommentsProceeds ==
    /\ pc = "CommentsFetched"
    /\ pc' = "Classifying"
    /\ UNCHANGED <<env, served, max_comments, video_id, video_info, info_calls,
                   requests, comments, next_page_token, analyzed, languages,
                   sentiment_stats, language_stats, render_calls, failure,
                   report>>

CheckComments ==
    /\ pc = "CommentsFetched"
    /\ IF comments = <<>>
       THEN pc' = "Failed" /\ failure' = Failed("NoComments")
       ELSE pc' = "Classifying" /\ UNCHANGED failure
    /\ UNCHANGED <<env, served, max_comments, video_id, video_info, info_calls,
                   requests, comments, next_page_token, analyzed, languages,
                   sentiment_stats, language_stats, render_calls, report>>

(***************************************************************************)
(* analyze_video, lines 195-196                                            *)
(***************************************************************************)
Classify ==
    /\ pc = "Classifying"
    /\ analyzed' = AnalyzeAll(comments)
    /\ pc' = "Aggregating"
    /\ UNCHANGED <<env, served, max_comments, video_id, video_info, info_calls,
                   requests, comments, next_page_token, languages,
                   sentiment_stats, language_stats, render_calls, failure,
                   report>>

(***************************************************************************)
(* analyze_video, lines 199-200                                            *)
(***************************************************************************)
Aggregate ==
    /\ pc = "Aggregating"
    /\ sentiment_stats' = get_sentiment_statistics(analyzed)
    /\ languages' = LanguageLabels(analyzed, pycountry_ok)
    /\ language_stats' = get_language_statistics(analyzed, pycountry_ok)
    /\ pc' = "Visualizing"
    /\ UNCHANGED <<env, served, max_comments, video_id, video_info, info_calls,
                   requests, comments, next_page_token, analyzed, render_calls,
                   failure, report>>

(***************************************************************************)
(* analyze_video, lines 203-214, generate_wordcloud_image, lines 43-61,    *)
(* and the view's render or except, lines 247-251                          *)
(***************************************************************************)
Report(image) ==
    [video_id |-> video_id, video_info |-> video_info[1],
     sentiment_stats |-> sentiment_stats, language_stats |-> language_stats,
     total_analyzed |-> Len(analyzed), wordcloud_image |-> image]

Visualize ==
    /\ pc = "Visualizing"
    /\ IF clean_text_for_wordcloud(analyzed) = <<>>
       THEN /\ report' = <<Report(NoImage)>>
            /\ pc' = "Done"
            /\ UNCHANGED <<render_calls, failure>>
       ELSE /\ render_calls' = render_calls + 1
            /\ \E outcome \in RenderOutcomes :
                  IF outcome = "image"
                  THEN /\ report' = <<Report(ImageUri)>>
                       /\ pc' = "Done"
                       /\ UNCHANGED failure
                  ELSE /\ pc' = "Failed" /\ failure' = Failed("RenderError")
                       /\ UNCHANGED report
    /\ UNCHANGED <<env, served, max_comments, video_id, video_info, info_calls,
                   requests, comments, next_page_token, analyzed, languages,
                   sentiment_stats, language_stats>>

Next ==
    \/ AnalyzeView
    \/ ResolveId
    \/ GetVideoInfo
    \/ GetCommentsPage
    \/ GetCommentsExit
    \/ CheckComments
    \/ Classify
    \/ Aggregate
    \/ Visualize

Spec == Init /\ [][Next]_vars

\* Termination is examined on the runs of POST requests against videos of
\* at most one comment. The run is sequential: whenever a step is possible,
\* one is taken.
LiveInit == Init /\ method = "POST" /\ Len(store) <= 1
LiveSpec == LiveInit /\ [][Next]_vars /\ WF_vars(Next)

TypeOK ==
    /\ pc \in {"Request", "Form", "ServerError", "ResolvingId", "FetchingMetadata",
               "FetchingComments", "CommentsFetched", "Classifying",
               "Aggregating", "Visualizing", "Done", "Failed"}
    /\ max_comments \in Nat
    /\ served \in 0..Len(store)
    /\ Len(requests) <= MaxLog
    /\ Len(report) <= 1
    /\ \A i \in 1..Len(store) : store[i] \in Texts \cup ExampleTexts
    /\ comments = SubSeq(store, 1, served)

(***************************************************************************)
(* Helpers of the properties                                               *)
(***************************************************************************)
Ceil(a, b) == (a + b - 1) \div b

\* get_comments has returned to analyze_video
FetchDone ==
    \/ pc \in {"CommentsFetched", "Classifying", "Aggregating", "Visualizing", "Done"}
    \/ pc = "Failed" /\ failure.at \in {"CommentsFetched", "Visualizing"}

\* analyze_video has been called with max_comments
PipelineCalled ==
    \/ pc \in {"ResolvingId", "FetchingMetadata", "FetchingComments",
               "CommentsFetched", "Classifying", "Aggregating", "Visualizing",
               "Done"}
    \/ pc = "Failed" /\ failure.at # "Request"

\* every logged page held exactly what was asked and offered a next page
AllFullPages ==
    \A i \in 1..Len(requests) : requests[i].got = requests[i].size /\ requests[i].more

RequestSizesOf(log) == [i \in 1..Len(log) |-> log[i].size]

\* C1: every page request asks for min(100, M - collected); with full pages
\* and a token always offered, ceil(M/100) requests are made (100 then 50 for
\* M = 150); no request follows a response without token or a full budget.
C1_Inv ==
    /\ \A i \in 1..Len(requests) :
          /\ requests[i].have < max_comments
          /\ requests[i].size = Min(100, max_comments - requests[i].have)
          /\ i < Len(requests) => requests[i].more /\ requests[i].got >= 0
    /\ pc = "FetchingComments" /\ requests # <<>> => next_page_token \in PageTokens
    /\ FetchDone /\ AllFullPages /\ max_comments <= 100 * MaxLog =>
          /\ Len(requests) = Ceil(max_comments, 100)
          /\ \A i \in 1..Len(requests) :
                requests[i].size = Min(100, max_comments - 100 * (i - 1))
          /\ max_comments = 150 => RequestSizesOf(requests) = <<100, 50>>

\* C1, as a property of every run: the request log always satisfies C1_Inv,
\* and a page is requested only at the loop head, below the budget, and
\* either first or after a response that carried a next-page token.
C1_PageRequests ==
    /\ []C1_Inv
    /\ [][served' # served \/ requests' # requests =>
            /\ Len(comments) < max_comments
            /\ pc = "FetchingComments"
            /\ requests = <<>> \/ next_page_token \in PageTokens]_vars

C1_Witness ==
    /\ pc = "Done"
    /\ max_comments = 150
    /\ AllFullPages
    /\ RequestSizesOf(requests) = <<100, 50>>
    /\ Len(comments) = 150

\* C2: at the loop head and after get_comments returned, at most max_comments
\* comments are collected, and total_analyzed never exceeds max_comments.
C2_CollectedWithinBound ==
    /\ pc = "FetchingComments" \/ FetchDone => Len(comments) <= max_comments
    /\ report # <<>> => report[1].total_analyzed <= max_comments

\* C3: a run-level failure ends the run at once: no upstream request after a
\* missing identifier, no page request after a failed metadata fetch, none
\* after a failed page request, no classification of zero comments; the run
\* is Failed with the matching kind and has no report.
C3_Inv ==
    /\ pc = "Failed" <=> failure # NoFailure
    /\ pc = "Failed" => report = <<>>
    /\ info_calls <= 1
    /\ failure.kind \in {"InvalidUrl", "InvalidReference"} =>
          info_calls = 0 /\ requests = <<>> /\ served = 0
    /\ PipelineCalled /\ pc # "ResolvingId" /\ extract_video_id(url) = NoId =>
          failure.kind = "InvalidReference"
    /\ failure.at = "FetchingMetadata" =>
          /\ failure.kind \in {"NotFound", "UpstreamError"}
          /\ info_calls = 1 /\ requests = <<>> /\ served = 0
    /\ failure.at = "FetchingComments" =>
          /\ failure.kind = "UpstreamError"
          /\ requests # <<>>
          /\ Len(requests) < MaxLog => requests[Len(requests)].got = -1
    /\ \A i \in 1..(Len(requests) - 1) : requests[i].got >= 0
    /\ failure.kind = "NoComments" =>
          /\ comments = <<>> /\ analyzed = <<>> /\ languages = <<>>
          /\ sentiment_stats = <<>> /\ language_stats = <<>> /\ render_calls = 0
    /\ pc \in {"Classifying", "Aggregating", "Visualizing", "Done"} =>
          comments # <<>> /\ video_info # <<>>
    /\ pc = "Failed" /\ failure.kind \in {"InvalidUrl", "InvalidReference",
                                         "NotFound", "NoComments", "UpstreamError"} =>
          analyzed = <<>> /\ render_calls = 0

\* C3, as a property of every run: C3_Inv always holds and a Failed run
\* takes no further step (no request, no retry, no report).
C3_FailFast == []C3_Inv /\ [][pc # "Failed"]_vars

C3_Witness ==
    /\ pc = "Failed"
    /\ failure = [kind |-> "UpstreamError", at |-> "FetchingComments"]
    /\ Len(requests) = 2
    /\ requests[1].got > 0 /\ requests[2].got = -1
    /\ comments # <<>>
    /\ report = <<>>

\* both statistics have been computed
StatsComputed == pc \in {"Visualizing", "Done"} \/ failure.at = "Visualizing"

Range(f) == {f[i] : i \in DOMAIN f}

RECURSIVE SumCounts(_)
SumCounts(stats) ==
    IF stats = <<>> THEN 0 ELSE Head(stats).count + SumCounts(Tail(stats))

Sentiments == [i \in 1..Len(analyzed) |-> analyzed[i].sentiment]

CountsMatch(stats, labels) ==
    /\ SumCounts(stats) = Len(labels)
    /\ \A x \in Range(labels) :
          Cardinality({k \in 1..Len(stats) : stats[k].name = x}) = 1
    /\ \A k \in 1..Len(stats) : stats[k].name \in Range(labels) /\ stats[k].count >= 1

\* C4: in both statistics the counts sum to total_analyzed, every label that
\* occurs has exactly one entry and no entry has a label that does not occur.
C4_CountsSumToTotal ==
    /\ StatsComputed =>
          /\ analyzed # <<>>
          /\ CountsMatch(sentiment_stats, Sentiments)
          /\ CountsMatch(language_stats, languages)
          /\ Len(languages) = Len(analyzed)
    /\ pc = "Done" =>
          /\ report[1].total_analyzed = Len(analyzed)
          /\ SumCounts(report[1].sentiment_stats) = report[1].total_analyzed
          /\ SumCounts(report[1].language_stats) = report[1].total_analyzed

\* three categories of one comment each: 33.3 + 33.3 + 33.3 is not 100
C4_Witness ==
    /\ pc = "Done"
    /\ report[1].total_analyzed = 3
    /\ Len(report[1].sentiment_stats) = 3
    /\ Len(report[1].language_stats) = 3
    /\ \A k \in 1..3 : report[1].language_stats[k].percentage = 333

FirstIndex(labels, x) ==
    CHOOSE i \in 1..Len(labels) :
        labels[i] = x /\ \A j \in 1..(i - 1) : labels[j] # x

RankedStable(stats, labels) ==
    \A i, j \in 1..Len(stats) :
        i < j /\ stats[i].name \in Range(labels) /\ stats[j].name \in Range(labels) =>
            /\ stats[i].count >= stats[j].count
            /\ stats[i].count = stats[j].count =>
                  FirstIndex(labels, stats[i].name) < FirstIndex(labels, stats[j].name)

NamesOf(stats) == [k \in 1..Len(stats) |-> stats[k].name]

RankingExample ==
    Uniform("I love this", 5) \o Uniform("C'est nul", 5) \o Uniform("Ganz gut", 3)

C6_SentimentThresholds ==
    \A i \in 1..Len(analyzed) :
        LET row == analyzed[i] IN
        /\ row.text = comments[i]
        /\ row.polarity = Polarity(row.text)
        /\ row.sentiment \in {"positive", "neutral", "negative"}
        /\ row.sentiment = "positive" <=> row.polarity > 1000
        /\ row.sentiment = "negative" <=> row.polarity < -1000
        /\ row.polarity \in {1000, -1000, 0} => row.sentiment = "neutral"
        /\ row.polarity = 1001 => row.sentiment = "positive"
        /\ row.polarity = -1001 => row.sentiment = "negative"

C6_Witness ==
    /\ Len(analyzed) = 2
    /\ analyzed[1].polarity = 1000 /\ analyzed[1].sentiment = "neutral"
    /\ analyzed[2].polarity = 1001 /\ analyzed[2].sentiment = "positive"

\* the label get_language_statistics is to give a text
ExpectedLabel(text) ==
    IF IsBlank(text) THEN "Unknown"
    ELSE IF Detect(text) \in {DetectFails, "unknown"} THEN "Unknown"
    ELSE IF pycountry_ok /\ Detect(text) \in DOMAIN LanguageNames
         THEN LanguageNames[Detect(text)]
    ELSE Detect(text)

\* every comment gets exactly one label, the expected one, whatever fails
LanguageLabelsAsExpected ==
    StatsComputed =>
        /\ Len(languages) = Len(comments)
        /\ \A i \in 1..Len(comments) : languages[i] = ExpectedLabel(comments[i])

\* C7: language classification never aborts the batch: every comment gets
\* its one label whatever detection or lookup does, and the run still
\* produces a report.
C7_LanguageNeverAborts ==
    /\ LanguageLabelsAsExpected
    /\ languages # <<>> /\ pc \in {"Done", "Failed"} => report # <<>>

\* C8: once aggregation has completed the run ends in Done with a report;
\* an empty corpus means no renderer call and no image; a failing renderer
\* costs at most the image.
C8_VisualizationNeverFails ==
    /\ failure.at # "Visualizing"
    /\ pc = "Done" /\ clean_text_for_wordcloud(analyzed) = <<>> =>
          render_calls = 0 /\ report[1].wordcloud_image = NoImage

\* C9: the bound passed to analyze_video is a positive integer: 800 when the
\* field is missing, otherwise clamped to at least 1.
C9_MaxCommentsPositive ==
    PipelineCalled =>
        /\ max_comments >= 1
        /\ ~post_max.present => max_comments = 800

\* C10: every run that is fetching comments eventually stops fetching,
\* whatever the upstream answers.
C10_FetchingTerminates ==
    (pc = "FetchingComments") ~> (pc # "FetchingComments")

====
